---- MODULE Spec2Model ----
(***************************************************************************)
(* Equity cash flows and the quanto cash-flow pricer of QuantLib           *)
(* (ql/cashflows/equitycashflow.cpp).                                      *)
(*                                                                         *)
(* Reals are exact: a number is  a * exp(e) + b  with a, b rational and e  *)
(* an integer multiple of one rate-time unit, which is closed under the    *)
(* operations the pricer uses (ratio of fixings, minus one, times          *)
(* notional).  Floating-point rounding is not modelled.                    *)
(* Term structures are flat and continuously compounded, times are         *)
(* measured from each curve's reference date by its own day counter.       *)
(***************************************************************************)
EXTENDS Integers, Sequences, FiniteSets, TLC

\* ------------------------------------------------------------- bounds
MaxDate == 3
Today == 1

Dates == 0..MaxDate
Notionals == {1000}

\* ------------------------------------------------------- exact numbers
Abs(x) == IF x < 0 THEN -x ELSE x

RECURSIVE GCD(_, _)
GCD(x, y) == IF y = 0 THEN x ELSE GCD(y, x % y)

Reduce(n, d, g) == <<n \div g, d \div g>>

\* the rational n/d in lowest terms with a positive denominator (d # 0)
Rat(n, d) ==
    IF d < 0 THEN Reduce(-n, -d, GCD(Abs(n), Abs(d)))
    ELSE Reduce(n, d, GCD(Abs(n), Abs(d)))

RMul(x, y) == Rat(x[1] * y[1], x[2] * y[2])
RDiv(x, y) == Rat(x[1] * y[2], x[2] * y[1])
RAdd(x, y) == Rat(x[1] * y[2] + y[1] * x[2], x[2] * y[2])
RZero == Rat(0, 1)

\* the real  a * exp(e) + b ; a pure rational is kept with e = 0 and b = 0
Real(a, e, b) ==
    IF e = 0 \/ a = RZero
    THEN [a |-> RAdd(a, b), e |-> 0, b |-> RZero]
    ELSE [a |-> a, e |-> e, b |-> b]

RealOf(n) == Real(Rat(n, 1), 0, RZero)
\* x / y for x, y without additive part (index fixings)
RealDiv(x, y) == Real(RDiv(x.a, y.a), x.e - y.e, RZero)
RealMinusOne(x) == Real(x.a, x.e, RAdd(x.b, Rat(-1, 1)))
RealScale(n, x) == Real(RMul(Rat(n, 1), x.a), x.e, RMul(Rat(n, 1), x.b))
RealTimesExp(x, e) == Real(x.a, x.e + e, x.b)

\* the outcome of a call: a value, or the message of the Error thrown
Ok(v) == [err |-> "", val |-> v]
Fail(msg) == [err |-> msg, val |-> RealOf(0)]
IsOk(r) == r.err = ""

\* ---------------------------------------------------------------- dates
\* Calendar dates of the library's Date class (years 1901 to 2099).
Date(d, m, y) == [dayOfMonth |-> d, month |-> m, year |-> y]

isLeap(y) == (y % 4 = 0 /\ y % 100 # 0) \/ y % 400 = 0

monthLength(m, y) ==
    IF m = 2 THEN (IF isLeap(y) THEN 29 ELSE 28)
    ELSE IF m \in {4, 6, 9, 11} THEN 30 ELSE 31

RECURSIVE monthOffset(_, _)
\* the days of the year y before its month m
monthOffset(m, y) ==
    IF m = 1 THEN 0 ELSE monthOffset(m - 1, y) + monthLength(m - 1, y)

dayOfYear(date) == monthOffset(date.month, date.year) + date.dayOfMonth

\* the serial number of a date: 367 is January 1st, 1901
serialNumber(date) ==
    367 + (date.year - 1901) * 365 + ((date.year - 1) \div 4 - 475)
        + dayOfYear(date) - 1

\* Sunday = 1, Monday = 2, ..., Saturday = 7
weekday(date) ==
    IF serialNumber(date) % 7 = 0 THEN 7 ELSE serialNumber(date) % 7

\* the day d of the month that lies k months after January of year 0,
\* brought back to the end of the month where the month is shorter
dayInMonth(d, k) ==
    IF d > monthLength((k % 12) + 1, k \div 12)
    THEN Date(monthLength((k % 12) + 1, k \div 12), (k % 12) + 1, k \div 12)
    ELSE Date(d, (k % 12) + 1, k \div 12)

\* date - n * Months
minusMonths(date, n) ==
    dayInMonth(date.dayOfMonth, date.year * 12 + (date.month - 1) - n)

\* the dates of a year's months m1..m2 that fall on the given days, the
\* last day of a month standing for the days the month does not have
DatesOn(days, m1, m2, y) ==
    {dayInMonth(d, y * 12 + (m - 1)) : d \in days, m \in m1..m2}

\* --------------------------------------------------------- market data
\* A handle is the name of the object it is linked to, or "empty".
EmptyHandle == "empty"

\* yield curves: zero rate (flat), reference date, day counter; "flatZero" is
\* the curve configureDividendHandle builds (equitycashflow.cpp lines 37-39)
YieldTermStructure(id) ==
    CASE id = "usd"      -> [rate |-> 2, referenceDate |-> Today,
                             dayCounter |-> "Actual365Fixed"]
      [] id = "usd360"   -> [rate |-> 2, referenceDate |-> Today,
                             dayCounter |-> "Actual360"]
      [] id = "usdFwd"   -> [rate |-> 2, referenceDate |-> Today + 1,
                             dayCounter |-> "Actual365Fixed"]
      [] id = "eur"      -> [rate |-> 5, referenceDate |-> Today,
                             dayCounter |-> "Actual365Fixed"]
      [] id = "eurDiv"   -> [rate |-> 1, referenceDate |-> Today,
                             dayCounter |-> "Actual365Fixed"]
      [] id = "flatZero" -> [rate |-> 0, referenceDate |-> Today,
                             dayCounter |-> "Actual365Fixed"]

\* DayCounter::yearFraction for a number of days, in units of 1/26280 year
\* (26280 = 72 * 365 = 73 * 360)
yearFraction(dayCounter, days) ==
    IF dayCounter = "Actual360" THEN 73 * days ELSE 72 * days

\* Black volatility surfaces: volatility (flat in time and strike), reference date
BlackVolTermStructure(id) ==
    CASE id = "eqVol0"   -> [vol |-> 0, referenceDate |-> Today]
      [] id = "eqVol"    -> [vol |-> 2, referenceDate |-> Today]
      [] id = "fxVol0"   -> [vol |-> 0, referenceDate |-> Today]
      [] id = "fxVol"    -> [vol |-> 3, referenceDate |-> Today]
      [] id = "fxVolFwd" -> [vol |-> 3, referenceDate |-> Today + 1]

QuantoCurves == {"usd", "usdFwd"}
EquityVols == {"eqVol0", "eqVol"}
FxVols == {"fxVol0", "fxVol", "fxVolFwd"}
Quotes == {"rho"}
CorrelationValues == {0, 1}

\* ------------------------------------------------------- equity indexes
NoIndex == "null"
EquityIndexes == {"eq1", "eq2", "eq3"}

\* historical fixings are stored by index name, for every date up to today
pastFixing(name, d) ==
    CASE name = "eq1" -> 100 + 10 * d
      [] name = "eq2" -> 40 + 20 * d
      [] name = "eq3" -> 50 + 25 * d

\* the spot quote of each index, by the name of the handle linked to it, and
\* its value: the index level of today
SpotHandle(name) ==
    CASE name = "eq1" -> "spot1"
      [] name = "eq2" -> "spot2"
      [] name = "eq3" -> "spot3"
SimpleQuote(id) ==
    CASE id = "spot1" -> pastFixing("eq1", Today)
      [] id = "spot2" -> pastFixing("eq2", Today)
      [] id = "spot3" -> pastFixing("eq3", Today)

\* the index objects the cash flows are built on: eq1 has an interest-rate
\* curve and no dividend curve, eq2 has no curve at all, eq3 has both
EquityIndex(name) ==
    [name |-> name,
     interest |-> IF name = "eq2" THEN EmptyHandle ELSE "eur",
     dividend |-> [kind |-> "handle",
                   id |-> IF name = "eq3" THEN "eurDiv" ELSE EmptyHandle],
     spot |-> SpotHandle(name)]

\* the handles a term structure dereferences when it is evaluated
CurveHandles(ts) ==
    IF ts.kind = "handle" THEN {ts.id}
    ELSE {ts.underlyingDividendTS, ts.riskFreeTS, ts.foreignRiskFreeTS,
          ts.underlyingBlackVolTS, ts.exchRateBlackVolTS}

\* zero yield of a term structure whose handles are all linked:
\* QuantoTermStructure adds  dividend + riskFree - foreignRiskFree
\*                           + correlation * equityVol * fxVol
zeroYield(ts) ==
    IF ts.kind = "handle" THEN YieldTermStructure(ts.id).rate
    ELSE YieldTermStructure(ts.underlyingDividendTS).rate
         + YieldTermStructure(ts.riskFreeTS).rate
         - YieldTermStructure(ts.foreignRiskFreeTS).rate
         + ts.underlyingExchRateCorrelation
           * BlackVolTermStructure(ts.underlyingBlackVolTS).vol
           * BlackVolTermStructure(ts.exchRateBlackVolTS).vol

\* the day counter of a term structure: a QuantoTermStructure takes the day
\* counter of its dividend curve
dayCounterOf(ts) ==
    IF ts.kind = "handle" THEN YieldTermStructure(ts.id).dayCounter
    ELSE YieldTermStructure(ts.underlyingDividendTS).dayCounter

\* the reference date of a term structure: a QuantoTermStructure takes the
\* reference date of its dividend curve
referenceDateOf(ts) ==
    IF ts.kind = "handle" THEN YieldTermStructure(ts.id).referenceDate
    ELSE YieldTermStructure(ts.underlyingDividendTS).referenceDate

\* rate * time from the curve's reference date to d, the time measured by
\* the curve's day counter
rateTime(rate, dayCounter, referenceDate, d) ==
    rate * yearFraction(dayCounter, d - referenceDate)

\* spot * dividend.discount(dDividend) / interest.discount(dInterest) of an
\* index whose curves are linked; without dividend curve
\* spot / interest.discount(dInterest); the spot handle is dereferenced now
forecastFrom(index, dDividend, dInterest) ==
    IF index.dividend.kind = "handle" /\ index.dividend.id = EmptyHandle
    THEN Ok(RealTimesExp(RealOf(SimpleQuote(index.spot)),
                rateTime(YieldTermStructure(index.interest).rate,
                         YieldTermStructure(index.interest).dayCounter,
                         YieldTermStructure(index.interest).referenceDate,
                         dInterest)))
    ELSE Ok(RealTimesExp(RealOf(SimpleQuote(index.spot)),
                rateTime(YieldTermStructure(index.interest).rate,
                         YieldTermStructure(index.interest).dayCounter,
                         YieldTermStructure(index.interest).referenceDate,
                         dInterest)
                - rateTime(zeroYield(index.dividend),
                           dayCounterOf(index.dividend),
                           referenceDateOf(index.dividend), dDividend)))

\* EquityIndex::forecastFixing: both discount factors for the date d
forecastFixing(index, d) ==
    IF index.interest = EmptyHandle
    THEN Fail("null interest rate term structure set to this instance")
    ELSE IF index.dividend.kind = "handle" /\ index.dividend.id = EmptyHandle
    THEN forecastFrom(index, d, d)
    ELSE IF EmptyHandle \in CurveHandles(index.dividend)
    THEN Fail("empty Handle cannot be dereferenced")
    ELSE forecastFrom(index, d, d)

\* Index::fixing: the historical value up to today, a forecast afterwards
fixing(index, d) ==
    IF d <= Today THEN Ok(RealOf(pastFixing(index.name, d)))
    ELSE forecastFixing(index, d)

\* EquityIndex::clone: same name (same fixing history), other curves and
\* spot handle
clone(index, interest, dividend, spot) ==
    [name |-> index.name, interest |-> interest, dividend |-> dividend,
     spot |-> spot]

\* ------------------------------------------------- the objects and state
CashFlows == {"c1", "c2"}
Pricers == {"p1", "p2"}
NoPricer == "null"
NullDate == -1
HandleNames == {"quantoCurrencyTermStructure_", "equityVolatility_",
                "fxVolatility_", "correlation_"}

VARIABLES
    cashFlow,     \* per cash flow: constructed?, notional, index, dates, flag
    pricer_,      \* EquityCashFlow::pricer_
    observers,    \* per pricer: the cash flows registered with it
    registered,   \* per pricer: the handles it is registered with
    handles,      \* per pricer: what each of its four handles is linked to
    quote,        \* per quote: its value
    members,      \* per pricer: index_, baseDate_, fixingDate_, growthOnlyPayoff_
    used,         \* per pricer: an amount() through it has succeeded
    updated,      \* per cash flow: update() calls received in the last operation
    lastOp,       \* the last operation, the calls it made and what it returned
    crashed,      \* a null pointer was dereferenced
    zeroInflation, \* the ZeroInflationCashFlow, as constructed, and its last call
    calendar,     \* the last TARGET::isBusinessDay query and its answer
    threads,      \* per thread: where it is in amount() and its locals
    equityIndex   \* per equity index: its curves and its spot

vars == <<cashFlow, pricer_, observers, registered, handles, quote, members,
          used, updated, lastOp, crashed, zeroInflation, calendar, threads,
          equityIndex>>

\* the cash flows, the pricers and the market data they are linked to
pricing == <<cashFlow, pricer_, observers, registered, handles, quote, members,
             used, updated, lastOp, crashed>>

\* the state of the other components, which the operations of one component
\* leave alone
elsewhere == <<zeroInflation, calendar, threads, equityIndex>>

\* no value returned (yet)
NoResult == Fail("none")

NoDate == Date(0, 0, 0)

\* no ZeroInflationCashFlow constructed yet
NoZeroInflation ==
    [constructed |-> FALSE,
     arguments |-> [index |-> NoIndex, observationInterpolation |-> "AsIndex",
                    startDate |-> NoDate, endDate |-> NoDate,
                    observationLag |-> 0, growthOnly |-> FALSE],
     cashFlow |-> [index |-> NoIndex, baseDate |-> NoDate, fixingDate |-> NoDate,
                   growthOnly |-> FALSE, zeroInflationIndex_ |-> NoIndex,
                   interpolation_ |-> "AsIndex", startDate_ |-> NoDate,
                   endDate_ |-> NoDate, observationLag_ |-> 0],
     call |-> "none",
     result |-> RZero]

\* no calendar query made yet
NoQuery == [asked |-> FALSE, date |-> NoDate, isBusinessDay |-> FALSE]

Threads == {"t1", "t2"}

\* no term structure built (yet)
NoTermStructure == [kind |-> "handle", id |-> EmptyHandle]

\* a thread that is not inside amount(), with the locals of price() unset;
\* reads, index and date hold what the statement in progress has read of the
\* pricer's members so far, fixing is the fixing in progress
IdleThread ==
    [pc |-> "idle", c |-> "none",
     reads |-> "none", index |-> NoIndex, date |-> NullDate,
     strike |-> NoResult, dividendHandle |-> EmptyHandle,
     quantoTermStructure |-> NoTermStructure,
     quantoIndex |-> clone(EquityIndex("eq1"), EmptyHandle, NoTermStructure,
                           EmptyHandle),
     fixing |-> "none",
     hasClone |-> FALSE, I0 |-> NoResult, I1 |-> NoResult]

\* no amount() call in progress; mutex is "unused" when callers take no
\* lock, and otherwise "free" or the thread that holds it; returned are the
\* cash flows whose amount() has returned a value; when the last step was the
\* return of an amount() call, last is its cash flow and result what it
\* returned; raced are the pricers whose index_ unsynchronized calls have
\* raced on, with "observables" once they have changed the observer sets
NoThreads ==
    [mutex |-> "unused",
     raced |-> {},
     returned |-> {},
     last |-> "none",
     result |-> NoResult,
     at |-> [t \in Threads |-> IdleThread]]

ElsewhereInit ==
    /\ zeroInflation = NoZeroInflation
    /\ calendar = NoQuery
    /\ threads = NoThreads
    /\ equityIndex = [name \in EquityIndexes |-> EquityIndex(name)]

NoUpdates == [c \in CashFlows |-> 0]
\* an operation, the calls it made and what they returned; rebound tells
\* that it bound a pricer that was bound to another index before
Op(op, target, calls, init, priceRes, result) ==
    [op |-> op, target |-> target, calls |-> calls, init |-> init,
     priceRes |-> priceRes, result |-> result, rebound |-> FALSE]
PlainOp(op, target) == Op(op, target, <<>>, "none", NoResult, NoResult)

\* ------------------------------------------- EquityQuantoCashFlowPricer
\* handle checks that look at the correlation first
requireHandlesCorrelationFirst(h) ==
    IF h.correlation_ = EmptyHandle
    THEN "Correlation handle cannot be empty."
    ELSE IF h.quantoCurrencyTermStructure_ = EmptyHandle
    THEN "Quanto currency term structure handle cannot be empty."
    ELSE IF h.equityVolatility_ = EmptyHandle
    THEN "Equity volatility term structure handle cannot be empty."
    ELSE IF h.fxVolatility_ = EmptyHandle
    THEN "FX volatility term structure handle cannot be empty."
    ELSE ""

\* lines 115-121: the first empty handle is the one reported
requireHandles(h) ==
    IF h.quantoCurrencyTermStructure_ = EmptyHandle
    THEN "Quanto currency term structure handle cannot be empty."
    ELSE IF h.equityVolatility_ = EmptyHandle
    THEN "Equity volatility term structure handle cannot be empty."
    ELSE IF h.fxVolatility_ = EmptyHandle
    THEN "FX volatility term structure handle cannot be empty."
    ELSE IF h.correlation_ = EmptyHandle
    THEN "Correlation handle cannot be empty."
    ELSE ""

\* a reference-date check that leaves the FX volatility out
requireSameReferenceDateNoFx(h) ==
    IF YieldTermStructure(h.quantoCurrencyTermStructure_).referenceDate
         = BlackVolTermStructure(h.equityVolatility_).referenceDate
    THEN ""
    ELSE "Quanto currency term structure, equity and FX volatility need to have the same reference date."

\* lines 124-128, on linked handles
requireSameReferenceDate(h) ==
    IF YieldTermStructure(h.quantoCurrencyTermStructure_).referenceDate
         = BlackVolTermStructure(h.equityVolatility_).referenceDate
       /\ BlackVolTermStructure(h.equityVolatility_).referenceDate
         = BlackVolTermStructure(h.fxVolatility_).referenceDate
    THEN ""
    ELSE "Quanto currency term structure, equity and FX volatility need to have the same reference date."

\* line 105
bindIndex(m, cf) ==
    [m EXCEPT !.index_ = cf.index]

\* a base date that is bound only while the pricer has none
bindBaseDateOnce(m, cf) ==
    IF m.baseDate_ # NullDate THEN m ELSE [m EXCEPT !.baseDate_ = cf.baseDate]

\* line 109
bindBaseDate(m, cf) ==
    [m EXCEPT !.baseDate_ = cf.baseDate]

\* line 110
bindFixingDate(m, cf) ==
    [m EXCEPT !.fixingDate_ = cf.fixingDate]

\* a growth flag that is bound only while the pricer has none
bindGrowthOnlyOnce(m, cf) ==
    IF m.growthOnlySet THEN m
    ELSE [m EXCEPT !.growthOnlyPayoff_ = cf.growthOnly, !.growthOnlySet = TRUE]

\* line 112
bindGrowthOnly(m, cf) ==
    [m EXCEPT !.growthOnlyPayoff_ = cf.growthOnly, !.growthOnlySet = TRUE]

\* initialize that checks the dates after the handles
initializeDatesLast(m, h, cf) ==
    LET m1 == [m EXCEPT !.index_ = cf.index]
        m3 == [m1 EXCEPT !.baseDate_ = cf.baseDate,
                         !.fixingDate_ = cf.fixingDate,
                         !.growthOnlyPayoff_ = cf.growthOnly,
                         !.growthOnlySet = TRUE]
    IN  IF m1.index_ = NoIndex
        THEN [members |-> m1, err |-> "Equity index required."]
        ELSE IF requireHandles(h) # ""
        THEN [members |-> m3, err |-> requireHandles(h)]
        ELSE IF requireSameReferenceDate(h) # ""
        THEN [members |-> m3, err |-> requireSameReferenceDate(h)]
        ELSE IF ~(m3.fixingDate_ >= m3.baseDate_)
        THEN [members |-> m3, err |-> "Fixing date cannot fall before base date."]
        ELSE [members |-> m3, err |-> ""]

\* initialize(cashFlow) on a pricer with members m and handles h: the members
\* it leaves behind and the message of the error it throws ("" if none)
initialize(m, h, cf) ==
    LET m1 == bindIndex(m, cf)
        m2 == bindFixingDate(bindBaseDate(m1, cf), cf)
        m3 == bindGrowthOnly(m2, cf)
    IN  IF m1.index_ = NoIndex
        THEN [members |-> m1, err |-> "Equity index required."]
        ELSE IF ~(m2.fixingDate_ >= m2.baseDate_)
        THEN [members |-> m2, err |-> "Fixing date cannot fall before base date."]
        ELSE IF requireHandles(h) # ""
        THEN [members |-> m3, err |-> requireHandles(h)]
        ELSE [members |-> m3, err |-> requireSameReferenceDate(h)]

\* lines 34-43: an empty dividend handle is replaced by a flat zero curve
configureDividendHandle(dividendHandle) ==
    IF dividendHandle = EmptyHandle THEN "flatZero" ELSE dividendHandle

\* a forecast curve that is the dividend curve, without quanto adjustment
quantoTermStructureUnadjusted(dividendHandle, h, foreignRiskFree, strike, correlation) ==
    [kind |-> "handle", id |-> dividendHandle]

\* lines 139-142: QuantoTermStructure over the dividend curve, the quanto
\* currency curve, the index's interest-rate curve, the volatilities, the
\* strike, an FX level of 1 and the value of the correlation quote
quantoTermStructure(dividendHandle, h, foreignRiskFree, strike, correlation) ==
    [kind |-> "quanto",
     underlyingDividendTS |-> dividendHandle,
     riskFreeTS |-> h.quantoCurrencyTermStructure_,
     foreignRiskFreeTS |-> foreignRiskFree,
     underlyingBlackVolTS |-> h.equityVolatility_,
     strike |-> strike,
     exchRateBlackVolTS |-> h.fxVolatility_,
     exchRateATMlevel |-> 1,
     underlyingExchRateCorrelation |-> correlation]

\* lines 135-146: the quanto-adjusted clone of the bound index
quantoIndex(index, h, strike, correlation) ==
    clone(index, h.quantoCurrencyTermStructure_,
          quantoTermStructure(configureDividendHandle(index.dividend.id), h,
                              index.interest, strike, correlation),
          index.spot)

\* lines 149-155: I1/I0, minus one for a growth-only payoff; an error in
\* either fixing is the outcome
indexRatio(I0, I1, g) ==
    IF ~IsOk(I0) THEN I0
    ELSE IF ~IsOk(I1) THEN I1
    ELSE IF g THEN Ok(RealMinusOne(RealDiv(I1.val, I0.val)))
    ELSE Ok(RealDiv(I1.val, I0.val))

\* lines 149-155 on the quanto index qi
quantoIndexRatio(qi, m, g) ==
    indexRatio(fixing(qi, m.baseDate_), fixing(qi, m.fixingDate_), g)

\* price() with the correlation taken when the pricer was constructed
priceCorrelationAtConstruction(index, strike, m, h, q, g) ==
    IF ~IsOk(strike) THEN strike
    ELSE IF h.correlation_ = EmptyHandle
    THEN Fail("empty Handle cannot be dereferenced")
    ELSE quantoIndexRatio(quantoIndex(index, h, strike.val, 0), m, g)

\* lines 133-155 for the bound index and the strike of line 133
priceFrom(index, strike, m, h, q, g) ==
    IF ~IsOk(strike) THEN strike
    ELSE IF h.correlation_ = EmptyHandle
    THEN Fail("empty Handle cannot be dereferenced")
    ELSE quantoIndexRatio(quantoIndex(index, h, strike.val, q[h.correlation_]), m, g)

\* price() on a pricer bound to a non-null index, growthOnlyPayoff_ read as g,
\* the quotes having the values q
price(m, h, q, g) ==
    priceFrom(EquityIndex(m.index_),
              fixing(EquityIndex(m.index_), m.fixingDate_), m, h, q, g)

\* -------------------------------------------------------- EquityCashFlow
\* IndexedCashFlow::amount: notional times the index ratio
indexedScale(cf, r) ==
    IF IsOk(r) THEN Ok(RealScale(cf.notional, r.val)) ELSE r

\* IndexedCashFlow::amount on a cash flow with a non-null index
indexedAmount(cf) ==
    indexedScale(cf, indexRatio(fixing(EquityIndex(cf.index), cf.baseDate),
                           fixing(EquityIndex(cf.index), cf.fixingDate),
                           cf.growthOnly))

\* the outcome of an amount() call: the pricer calls made, the error of
\* initialize ("" if none, "none" if not called), the outcome of price(),
\* the outcome of amount() and the members the pricer is left with
Outcome(calls, init, priceRes, result, m) ==
    [calls |-> calls, init |-> init, priceRes |-> priceRes, result |-> result,
     members |-> m]

\* line 83 without the notional
unscaled(cf, pr) == pr

\* line 83: notional() * pricer_->price()
scaled(cf, pr) ==
    IF IsOk(pr) THEN Ok(RealScale(cf.notional, pr.val)) ELSE pr

\* lines 82-83 given the outcomes init of initialize and pr of price(): an
\* error thrown by initialize leaves amount() before price() is called
throughPricer(cf, init, pr) ==
    IF init.err # ""
    THEN Outcome(<<"initialize">>, init.err, NoResult, Fail(init.err),
                 init.members)
    ELSE Outcome(<<"initialize", "price">>, "", pr, scaled(cf, pr),
                 init.members)

\* line 83: price() on the pricer as initialize left it
priceAfter(init, h, q) ==
    price(init.members, h, q, init.members.growthOnlyPayoff_)

\* lines 82-83
initializeAndPrice(cf, init, h, q) ==
    throughPricer(cf, init, priceAfter(init, h, q))

\* amount() that multiplies the base-class amount by the notional again
amountScaledTwice(cf, p, m, h, q) ==
    IF p = NoPricer
    THEN Outcome(<<>>, "none", NoResult, indexedScale(cf, indexedAmount(cf)), m)
    ELSE initializeAndPrice(cf, initialize(m, h, cf), h, q)

\* lines 78-84: amount() of cash flow cf whose pricer_ is p, a pricer with
\* members m and handles h
amount(cf, p, m, h, q) ==
    IF p = NoPricer
    THEN Outcome(<<>>, "none", NoResult, indexedAmount(cf), m)
    ELSE initializeAndPrice(cf, initialize(m, h, cf), h, q)

\* lines 96-99: the handles the pricer's constructor registers with
constructorRegistrations == HandleNames

\* setPricer that does not unregister from the previous pricer
setPricerKeepsOld(obs, c, old, p) ==
    IF p # NoPricer THEN [obs EXCEPT ![p] = @ \cup {c}] ELSE obs

\* lines 68-73: the observer sets after cash flow c has set pricer p
setPricerObservers(obs, c, old, p) ==
    LET unreg == IF old # NoPricer
                 THEN [obs EXCEPT ![old] = @ \ {c}] ELSE obs
    IN  IF p # NoPricer THEN [unreg EXCEPT ![p] = @ \cup {c}] ELSE unreg

\* the pricers a notification from the objects in `changed` reaches:
\* the pricer is registered with handle hn, which is linked to the object
notifiedPricers(hn, obj) ==
    {p \in Pricers : hn \in registered[p] /\ handles[p][hn] = obj}

\* update() calls each cash flow receives when the pricers ps notify
updatesFrom(ps) ==
    [c \in CashFlows |-> Cardinality({p \in ps : c \in observers[p]})]

NoMembers ==
    [index_ |-> NoIndex, baseDate_ |-> NullDate, fixingDate_ |-> NullDate,
     growthOnlyPayoff_ |-> FALSE, growthOnlySet |-> FALSE]
NoHandles == [hn \in HandleNames |-> EmptyHandle]
NoCashFlow ==
    [constructed |-> FALSE, notional |-> 0, index |-> NoIndex,
     baseDate |-> NullDate, fixingDate |-> NullDate, growthOnly |-> FALSE]

Init ==
    /\ cashFlow = [c \in CashFlows |-> NoCashFlow]
    /\ pricer_ = [c \in CashFlows |-> NoPricer]
    /\ observers = [p \in Pricers |-> {}]
    /\ registered = [p \in Pricers |-> constructorRegistrations]
    /\ handles = [p \in Pricers |-> NoHandles]
    /\ quote = [qn \in Quotes |-> 0]
    /\ members = [p \in Pricers |-> NoMembers]
    /\ used = [p \in Pricers |-> FALSE]
    /\ updated = NoUpdates
    /\ lastOp = PlainOp("none", "none")
    /\ crashed = FALSE
    /\ ElsewhereInit

\* lines 57-63: the constructor stores its arguments
Construct(c, n, i, b, f, g) ==
    /\ ~crashed
    /\ ~cashFlow[c].constructed
    /\ cashFlow' = [cashFlow EXCEPT ![c] =
            [constructed |-> TRUE, notional |-> n, index |-> i,
             baseDate |-> b, fixingDate |-> f, growthOnly |-> g]]
    /\ updated' = NoUpdates
    /\ lastOp' = PlainOp("construct", c)
    /\ UNCHANGED <<pricer_, observers, registered, handles, quote, members,
                   used, crashed>>
    /\ UNCHANGED elsewhere

\* lines 66-75
SetPricer(c, p) ==
    /\ ~crashed
    /\ cashFlow[c].constructed
    /\ observers' = setPricerObservers(observers, c, pricer_[c], p)
    /\ pricer_' = [pricer_ EXCEPT ![c] = p]
    /\ updated' = [NoUpdates EXCEPT ![c] = 1]
    /\ lastOp' = PlainOp("setPricer", c)
    /\ UNCHANGED <<cashFlow, registered, handles, quote, members, used, crashed>>
    /\ UNCHANGED elsewhere

\* the elements of a Leg: EquityCashFlows, and cash flows of another kind or
\* null pointers ("other"), which the dynamic cast of line 50 yields null for
Legs == {<<"c1">>, <<"c2", "other", "c1">>, <<"c1", "c1">>}
CashFlowsOf(leg) == {leg[k] : k \in DOMAIN leg} \cap CashFlows

\* lines 48-53: setPricer(p) on every EquityCashFlow of the leg, in order;
\* s holds pricer_, the observer sets and the update() calls so far
RECURSIVE setCouponPricer(_, _, _)
setCouponPricer(s, leg, p) ==
    IF leg = <<>> THEN s
    ELSE IF Head(leg) \notin CashFlows THEN setCouponPricer(s, Tail(leg), p)
    ELSE setCouponPricer(
             [pricer_ |-> [s.pricer_ EXCEPT ![Head(leg)] = p],
              observers |-> setPricerObservers(s.observers, Head(leg),
                                               s.pricer_[Head(leg)], p),
              updated |-> [s.updated EXCEPT ![Head(leg)] = @ + 1]],
             Tail(leg), p)

\* lines 47-54
SetCouponPricer(leg, p) ==
    /\ ~crashed
    /\ \A c \in CashFlowsOf(leg) : cashFlow[c].constructed
    /\ \E s \in {setCouponPricer([pricer_ |-> pricer_, observers |-> observers,
                                  updated |-> NoUpdates], leg, p)} :
          /\ pricer_' = s.pricer_
          /\ observers' = s.observers
          /\ updated' = s.updated
    /\ lastOp' = PlainOp("setCouponPricer", "leg")
    /\ UNCHANGED <<cashFlow, registered, handles, quote, members, used, crashed>>
    /\ UNCHANGED elsewhere

MembersOf(p) == IF p = NoPricer THEN NoMembers ELSE members[p]
HandlesOf(p) == IF p = NoPricer THEN NoHandles ELSE handles[p]

\* the effect of an amount() call of cash flow c with outcome r
AmountReturns(c, p, r) ==
    /\ lastOp' = [Op("amount", c, r.calls, r.init, r.priceRes, r.result)
                      EXCEPT !.rebound =
                                 /\ p # NoPricer
                                 /\ members[p].index_ # NoIndex
                                 /\ members[p].index_ # r.members.index_]
    /\ IF p = NoPricer
       THEN UNCHANGED <<members, used>>
       ELSE /\ members' = [members EXCEPT ![p] = r.members]
            /\ used' = [used EXCEPT ![p] = @ \/ IsOk(r.result)]
    /\ crashed' = FALSE

\* lines 78-84; without pricer and without index the base class
\* dereferences a null index
Amount(c) ==
    /\ ~crashed
    /\ cashFlow[c].constructed
    /\ updated' = NoUpdates
    /\ IF pricer_[c] = NoPricer /\ cashFlow[c].index = NoIndex
       THEN /\ crashed' = TRUE
            /\ lastOp' = PlainOp("amount", c)
            /\ UNCHANGED <<members, used>>
       ELSE AmountReturns(c, pricer_[c],
                amount(cashFlow[c], pricer_[c], MembersOf(pricer_[c]),
                       HandlesOf(pricer_[c]), quote))
    /\ UNCHANGED <<cashFlow, pricer_, observers, registered, handles, quote>>
    /\ UNCHANGED elsewhere

\* lines 103-129, called on the pricer directly with cash flow c: the members
\* are bound as far as initialize gets, whoever the pricer of c is
Initialize(p, c) ==
    /\ ~crashed
    /\ cashFlow[c].constructed
    /\ \E r \in {initialize(members[p], handles[p], cashFlow[c])} :
          /\ members' = [members EXCEPT ![p] = r.members]
          /\ lastOp' = Op("initialize", p, <<"initialize">>, r.err, NoResult,
                          IF r.err = "" THEN NoResult ELSE Fail(r.err))
    /\ updated' = NoUpdates
    /\ UNCHANGED <<cashFlow, pricer_, observers, registered, handles, quote,
                   used, crashed>>
    /\ UNCHANGED elsewhere

PriceReturns(p, r) == lastOp' = Op("price", p, <<"price">>, "none", r, r)

\* lines 132-156, called on the pricer directly; growthOnlyPayoff_ is
\* indeterminate until an initialize has assigned it
Price(p) ==
    /\ ~crashed
    /\ updated' = NoUpdates
    /\ IF members[p].index_ = NoIndex
       THEN /\ crashed' = TRUE
            /\ lastOp' = PlainOp("price", p)
       ELSE /\ \E g \in IF members[p].growthOnlySet
                        THEN {members[p].growthOnlyPayoff_} ELSE BOOLEAN :
                PriceReturns(p, price(members[p], handles[p], quote, g))
            /\ crashed' = FALSE
    /\ UNCHANGED <<cashFlow, pricer_, observers, registered, handles, quote,
                   members, used>>
    /\ UNCHANGED elsewhere

\* RelinkableHandle::linkTo (obj may be EmptyHandle), then the notification
LinkTo(p, hn, obj) ==
    /\ ~crashed
    /\ handles[p][hn] # obj
    /\ handles' = [handles EXCEPT ![p][hn] = obj]
    /\ updated' = updatesFrom(IF hn \in registered[p] THEN {p} ELSE {})
    /\ lastOp' = PlainOp("linkTo", p)
    /\ UNCHANGED <<cashFlow, pricer_, observers, registered, quote, members,
                   used, crashed>>
    /\ UNCHANGED elsewhere

\* SimpleQuote::setValue, then the notification
SetValue(qn, v) ==
    /\ ~crashed
    /\ quote[qn] # v
    /\ quote' = [quote EXCEPT ![qn] = v]
    /\ updated' = updatesFrom(notifiedPricers("correlation_", qn))
    /\ lastOp' = PlainOp("setValue", qn)
    /\ UNCHANGED <<cashFlow, pricer_, observers, registered, handles, members,
                   used, crashed>>
    /\ UNCHANGED elsewhere

HandleChoices(hn) ==
    {EmptyHandle} \cup
    (CASE hn = "quantoCurrencyTermStructure_" -> QuantoCurves
       [] hn = "equityVolatility_" -> EquityVols
       [] hn = "fxVolatility_" -> FxVols
       [] hn = "correlation_" -> Quotes)

\* The pricing of one cash flow by one pricer, over every construction input
\* and every linking of the pricer's handles.
PricingCashFlows == {"c1"}
PricingPricers == {"p1"}

Next ==
    \/ \E c \in PricingCashFlows, n \in Notionals,
          i \in EquityIndexes \cup {NoIndex},
          b \in Dates, f \in Dates, g \in BOOLEAN : Construct(c, n, i, b, f, g)
    \/ \E c \in PricingCashFlows, p \in PricingPricers \cup {NoPricer} :
          SetPricer(c, p)
    \/ \E c \in PricingCashFlows : Amount(c)
    \/ \E p \in PricingPricers, c \in PricingCashFlows : Initialize(p, c)
    \/ \E p \in PricingPricers : Price(p)
    \/ \E p \in PricingPricers, hn \in HandleNames :
          \E obj \in HandleChoices(hn) : LinkTo(p, hn, obj)
    \/ \E qn \in Quotes, v \in CorrelationValues : SetValue(qn, v)

Spec == Init /\ [][Next]_vars

\* Two cash flows and two pricers that share the correlation quote: the
\* observer graph.  Both pricers start fully linked; p1's handles are relinked.
GraphHandles ==
    [hn \in HandleNames |->
        CASE hn = "quantoCurrencyTermStructure_" -> "usd"
          [] hn = "equityVolatility_" -> "eqVol"
          [] hn = "fxVolatility_" -> "fxVol"
          [] hn = "correlation_" -> "rho"]

GraphInit ==
    /\ cashFlow = [c \in CashFlows |-> NoCashFlow]
    /\ pricer_ = [c \in CashFlows |-> NoPricer]
    /\ observers = [p \in Pricers |-> {}]
    /\ registered = [p \in Pricers |-> constructorRegistrations]
    /\ handles = [p \in Pricers |-> GraphHandles]
    /\ quote = [qn \in Quotes |-> 0]
    /\ members = [p \in Pricers |-> NoMembers]
    /\ used = [p \in Pricers |-> FALSE]
    /\ updated = NoUpdates
    /\ lastOp = PlainOp("none", "none")
    /\ crashed = FALSE
    /\ ElsewhereInit

GraphNext ==
    \/ \E n \in Notionals, f \in {Today, MaxDate} :
          Construct("c1", n, "eq1", 0, f, TRUE)
    \/ \E n \in Notionals : Construct("c2", n, "eq3", Today, MaxDate, FALSE)
    \/ \E c \in CashFlows, p \in Pricers \cup {NoPricer} : SetPricer(c, p)
    \/ \E leg \in Legs, p \in Pricers \cup {NoPricer} : SetCouponPricer(leg, p)
    \/ \E c \in CashFlows : Amount(c)
    \/ \E p \in Pricers, c \in CashFlows : Initialize(p, c)
    \/ \E p \in Pricers : Price(p)
    \/ \E hn \in HandleNames :
          \E obj \in {EmptyHandle, GraphHandles[hn]} : LinkTo("p1", hn, obj)
    \/ \E qn \in Quotes, v \in CorrelationValues : SetValue(qn, v)

GraphSpec == GraphInit /\ [][GraphNext]_vars

\* ------------------------------------------------- ZeroInflationCashFlow
\* the index is published monthly: the fixing of the month a date lies in
zeroInflationFixing(index, date) ==
    Rat(100 + ((date.year - 2019) * 12 + date.month)
                  * ((date.year - 2019) * 12 + date.month), 1)

\* I0 + (I1 - I0) * (days into the month of the date) / (days of that month)
interpolate(I0, I1, date) ==
    RAdd(I0, RMul(RAdd(I1, RMul(Rat(-1, 1), I0)),
                  Rat(date.dayOfMonth - 1, monthLength(date.month, date.year))))

\* CPI::laggedFixing with a lag in months on a monthly index: the fixing at
\* the observation date, at the start of its month, or interpolated between
\* that month and the next
laggedFixing(index, date, lag, interpolationType) ==
    CASE interpolationType = "AsIndex" ->
            zeroInflationFixing(index, minusMonths(date, lag))
      [] interpolationType = "Flat" ->
            zeroInflationFixing(index,
                Date(1, minusMonths(date, lag).month, minusMonths(date, lag).year))
      [] interpolationType = "Linear" ->
            interpolate(zeroInflationFixing(index, minusMonths(date, lag)),
                        zeroInflationFixing(index, minusMonths(date, lag - 1)),
                        date)

\* lines 28-40: the fields of the cash flow constructed from the arguments a
ZeroInflationCashFlow(a) ==
    [index |-> a.index,
     baseDate |-> minusMonths(a.startDate, a.observationLag),
     fixingDate |-> minusMonths(a.endDate, a.observationLag),
     growthOnly |-> a.growthOnly,
     zeroInflationIndex_ |-> a.index,
     interpolation_ |-> a.observationInterpolation,
     startDate_ |-> a.startDate,
     endDate_ |-> a.endDate,
     observationLag_ |-> a.observationLag]

\* a base fixing that lags the base date of the base class once more
baseFixingLaggedTwice(cf) ==
    laggedFixing(cf.zeroInflationIndex_, cf.baseDate, cf.observationLag_,
                 cf.interpolation_)

\* lines 43-46
baseFixing(cf) ==
    laggedFixing(cf.zeroInflationIndex_, cf.startDate_, cf.observationLag_,
                 cf.interpolation_)

\* lines 49-52
indexFixing(cf) ==
    laggedFixing(cf.zeroInflationIndex_, cf.endDate_, cf.observationLag_,
                 cf.interpolation_)

ZeroInflationIndexes == {"cpi"}
InterpolationTypes == {"AsIndex", "Flat", "Linear"}
\* start and end dates: the 1st, the 16th and the last day of three months
InflationDates == DatesOn({1, 16, 31}, 3, 5, 2020)
\* observation lags, in months
MaxLag == 3
ObservationLags == 0..MaxLag

\* lines 28-40
ZConstruct(i, it, s, e, lag, g) ==
    /\ ~zeroInflation.constructed
    /\ zeroInflation' =
          [constructed |-> TRUE,
           arguments |-> [index |-> i, observationInterpolation |-> it,
                          startDate |-> s, endDate |-> e,
                          observationLag |-> lag, growthOnly |-> g],
           cashFlow |-> ZeroInflationCashFlow(
                          [index |-> i, observationInterpolation |-> it,
                           startDate |-> s, endDate |-> e,
                           observationLag |-> lag, growthOnly |-> g]),
           call |-> "none",
           result |-> RZero]
    /\ UNCHANGED <<pricing, calendar, threads, equityIndex>>

\* lines 43-46
BaseFixing ==
    /\ zeroInflation.constructed
    /\ zeroInflation' = [zeroInflation EXCEPT
                            !.call = "baseFixing",
                            !.result = baseFixing(zeroInflation.cashFlow)]
    /\ UNCHANGED <<pricing, calendar, threads, equityIndex>>

\* lines 49-52
IndexFixing ==
    /\ zeroInflation.constructed
    /\ zeroInflation' = [zeroInflation EXCEPT
                            !.call = "indexFixing",
                            !.result = indexFixing(zeroInflation.cashFlow)]
    /\ UNCHANGED <<pricing, calendar, threads, equityIndex>>

InflationNext ==
    \/ \E i \in ZeroInflationIndexes, it \in InterpolationTypes,
          s \in InflationDates, e \in InflationDates,
          lag \in ObservationLags, g \in BOOLEAN :
          ZConstruct(i, it, s, e, lag, g)
    \/ BaseFixing
    \/ IndexFixing

\* One zero-inflation cash flow over every interpolation, start and end
\* date and observation lag, and its fixings.
InflationSpec == Init /\ [][InflationNext]_vars

\* ---------------------------------------------------------------- TARGET
\* Calendar::WesternImpl::isWeekend
isWeekend(w) == w = 7 \/ w = 1

\* Easter Sunday of year y as the number of days after March 21st
easterOffset(a, b, c) ==
    LET h == (19 * a + b - (b \div 4) - ((b - ((b + 8) \div 25) + 1) \div 3) + 15) % 30
        l == (32 + 2 * (b % 4) + 2 * (c \div 4) - h - (c % 4)) % 7
    IN  h + l - 7 * ((a + 11 * h + 22 * l) \div 451)

\* Calendar::WesternImpl::easterMonday: the day of the year of Easter Monday
easterMonday(y) ==
    monthOffset(3, y) + 21 + easterOffset(y % 19, y \div 100, y % 100) + 2

\* isBusinessDay with Good Friday and Easter Monday in every year
isBusinessDayEasterAlways(date) ==
    LET w == weekday(date)
        d == date.dayOfMonth
        dd == dayOfYear(date)
        m == date.month
        y == date.year
        em == easterMonday(y)
    IN  IF \/ isWeekend(w)
           \/ (d = 1 /\ m = 1)
           \/ dd = em - 3
           \/ dd = em
           \/ (d = 1 /\ m = 5 /\ y >= 2000)
           \/ (d = 25 /\ m = 12)
           \/ (d = 26 /\ m = 12 /\ y >= 2000)
           \/ (d = 31 /\ m = 12 /\ (y = 1998 \/ y = 1999 \/ y = 2001))
        THEN FALSE
        ELSE TRUE

\* target.cpp lines 34-64
isBusinessDay(date) ==
    LET w == weekday(date)
        d == date.dayOfMonth
        dd == dayOfYear(date)
        m == date.month
        y == date.year
        em == easterMonday(y)
    IN  IF \/ isWeekend(w)
           \/ (d = 1 /\ m = 1)
           \/ (dd = em - 3 /\ y >= 2000)
           \/ (dd = em /\ y >= 2000)
           \/ (d = 1 /\ m = 5 /\ y >= 2000)
           \/ (d = 25 /\ m = 12)
           \/ (d = 26 /\ m = 12 /\ y >= 2000)
           \/ (d = 31 /\ m = 12 /\ (y = 1998 \/ y = 1999 \/ y = 2001))
        THEN FALSE
        ELSE TRUE

\* the last year of the dates asked about
MaxYear == 2002
CalendarDates ==
    {date \in {Date(d, m, y) : d \in 1..31, m \in 1..12, y \in 1998..MaxYear} :
        date.dayOfMonth <= monthLength(date.month, date.year)}

\* a call of TARGET().isBusinessDay(date)
IsBusinessDay(date) ==
    /\ ~calendar.asked
    /\ calendar' = [asked |-> TRUE, date |-> date,
                    isBusinessDay |-> isBusinessDay(date)]
    /\ UNCHANGED <<pricing, zeroInflation, threads, equityIndex>>

CalendarNext == \E date \in CalendarDates : IsBusinessDay(date)

\* The TARGET calendar asked about every date of the years 1998 to MaxYear.
CalendarSpec == Init /\ [][CalendarNext]_vars

\* -------------------------------------------- amount(), statement by statement
\* Calls of amount() by threads that share the pricers: every read and every
\* write of a member of the pricer by initialize and price is a step.  The
\* members are not synchronized.  A read of a date or of the flag returns the
\* value written last; fixing() is passed the date member by reference and
\* reads it again wherever it uses the date.  index_ is a shared_ptr: an
\* access of it that races with the call of another thread either does the
\* same or corrupts the pointer's reference count, and the process crashes.
\* The curves and the clone that price() builds register with observables
\* that the threads share (the evaluation date, the handles of the pricer
\* and of the index) and unregister when price() is left; the observer sets
\* are not synchronized either.

\* lines 115-128: the message of the first failing requirement, "" if none
requireMarketData(h) ==
    IF requireHandles(h) # "" THEN requireHandles(h)
    ELSE requireSameReferenceDate(h)

At(t) == threads.at[t]
Calling(t) == cashFlow[At(t).c]
PricerOf(t) == pricer_[At(t).c]

\* another thread is inside amount() and the callers take no lock
Unlocked(t) ==
    /\ threads.mutex = "unused"
    /\ \E u \in Threads \ {t} : At(u).pc # "idle"

\* another thread is inside amount() of a cash flow with the same pricer and
\* the callers take no lock
Racing(t) ==
    /\ threads.mutex = "unused"
    /\ \E u \in Threads \ {t} : At(u).pc # "idle" /\ PricerOf(u) = PricerOf(t)

\* what an access of index_ by thread t can do: once calls have raced on the
\* pointer its reference count is corrupt, and the index it pointed to may be
\* destroyed while a cash flow still holds it
Racy(t) == Racing(t) \/ PricerOf(t) \in threads.raced
IndexAccess(t) == IF Racy(t) THEN {"done", "crash"} ELSE {"done"}

\* what the assignment of line 105 can do: on a destroyed index the dynamic
\* cast may yield null
IndexAssignment(t) == IF Racy(t) THEN {"done", "null", "crash"} ELSE {"done"}

\* what a dereference of index_ by thread t can do
IndexDereference(t) ==
    IF members[PricerOf(t)].index_ = NoIndex THEN {"crash"} ELSE IndexAccess(t)

\* what registering with, or unregistering from, the shared observables can
\* do: an observer set that unsynchronized calls have changed may be corrupt
ObserverAccess(t) ==
    IF Unlocked(t) \/ "observables" \in threads.raced
    THEN {"done", "crash"} ELSE {"done"}

\* thread t holds a curve or a clone that price() has built
Owns(t) ==
    \/ At(t).dividendHandle = "flatZero"
    \/ At(t).quantoTermStructure # NoTermStructure
    \/ At(t).hasClone

\* the process dies of a segmentation fault
Crash ==
    /\ crashed' = TRUE
    /\ UNCHANGED <<cashFlow, pricer_, observers, registered, handles, quote,
                   members, used, updated, lastOp>>
    /\ UNCHANGED elsewhere

\* the thread goes on with the locals loc at statement pc; the step returns
\* nothing to a caller
Goto(t, loc, pc) ==
    threads' = [threads EXCEPT !.at[t] = [loc EXCEPT !.pc = pc],
                               !.last = "none",
                               !.result = NoResult]

\* amount() returns r (or throws the error r) and the caller releases the
\* lock it took
Return(t, c, r) ==
    threads' = [threads EXCEPT
                   !.at[t] = IdleThread,
                   !.raced = IF Owns(t) /\ Unlocked(t)
                             THEN @ \cup {"observables"} ELSE @,
                   !.returned = IF IsOk(r) THEN @ \cup {c} ELSE @,
                   !.last = c,
                   !.result = r,
                   !.mutex = IF @ = "unused" THEN @ ELSE "free"]

\* a step of thread t at statement pc that leaves the pricers as they are
Local(t, pc) ==
    /\ ~crashed
    /\ At(t).pc = pc
    /\ UNCHANGED <<pricing, zeroInflation, calendar, equityIndex>>

\* a step of thread t at statement pc that writes members of its pricer
Binding(t, pc) ==
    /\ ~crashed
    /\ At(t).pc = pc
    /\ UNCHANGED <<cashFlow, pricer_, observers, registered, handles, quote,
                   used, updated, lastOp, crashed>>
    /\ UNCHANGED <<zeroInflation, calendar, equityIndex>>

\* lines 78-81: a thread calls amount() on cash flow c, after taking the lock
\* where callers use one; without pricer the base-class amount is returned
Call(t, c) ==
    /\ Local(t, "idle")
    /\ threads.mutex \in {"unused", "free"}
    /\ cashFlow[c].constructed
    /\ cashFlow[c].index # NoIndex
    /\ IF pricer_[c] = NoPricer
       THEN threads' = [threads EXCEPT
                           !.returned = IF IsOk(indexedAmount(cashFlow[c]))
                                        THEN @ \cup {c} ELSE @,
                           !.last = c,
                           !.result = indexedAmount(cashFlow[c])]
       ELSE threads' = [threads EXCEPT
                           !.at[t] = [IdleThread EXCEPT
                                         !.pc = "initIndex", !.c = c],
                           !.last = "none",
                           !.result = NoResult,
                           !.mutex = IF @ = "unused" THEN @ ELSE t]

\* line 105
InitIndex(t) ==
    /\ ~crashed
    /\ At(t).pc = "initIndex"
    /\ \E outcome \in IndexAssignment(t) :
          IF outcome = "crash" THEN Crash
          ELSE /\ members' = [members EXCEPT
                                 ![PricerOf(t)] =
                                     IF outcome = "null"
                                     THEN [@ EXCEPT !.index_ = NoIndex]
                                     ELSE bindIndex(@, Calling(t))]
               /\ threads' = [threads EXCEPT
                                 !.at[t].pc = "initCheck",
                                 !.raced = IF Racing(t)
                                           THEN @ \cup {PricerOf(t)} ELSE @,
                                 !.last = "none",
                                 !.result = NoResult]
               /\ UNCHANGED <<cashFlow, pricer_, observers, registered, handles,
                              quote, used, updated, lastOp, crashed>>
               /\ UNCHANGED <<zeroInflation, calendar, equityIndex>>

\* lines 106-108
InitCheck(t) ==
    /\ Local(t, "initCheck")
    /\ IF members[PricerOf(t)].index_ = NoIndex
       THEN Return(t, At(t).c, Fail("Equity index required."))
       ELSE Goto(t, At(t), "initBaseDate")

\* line 109
InitBaseDate(t) ==
    /\ Binding(t, "initBaseDate")
    /\ members' = [members EXCEPT ![PricerOf(t)] = bindBaseDate(@, Calling(t))]
    /\ Goto(t, At(t), "initFixingDate")

\* line 110
InitFixingDate(t) ==
    /\ Binding(t, "initFixingDate")
    /\ members' = [members EXCEPT ![PricerOf(t)] = bindFixingDate(@, Calling(t))]
    /\ Goto(t, At(t), "initRequire")

\* line 111, the operand that is read first: the order in which the operands
\* of >= are read is not specified
InitRequire(t) ==
    /\ Local(t, "initRequire")
    /\ \E first \in {"baseDate_", "fixingDate_"} :
          Goto(t, [At(t) EXCEPT !.reads = first,
                                !.date = members[PricerOf(t)][first]],
               "initCompare")

\* line 111, the other operand and the comparison
InitCompare(t) ==
    /\ Local(t, "initCompare")
    /\ IF (IF At(t).reads = "baseDate_"
           THEN members[PricerOf(t)].fixingDate_ >= At(t).date
           ELSE At(t).date >= members[PricerOf(t)].baseDate_)
       THEN Goto(t, [At(t) EXCEPT !.reads = "none", !.date = NullDate],
                 "initFlag")
       ELSE Return(t, At(t).c, Fail("Fixing date cannot fall before base date."))

\* lines 112-128
InitFlag(t) ==
    /\ Binding(t, "initFlag")
    /\ members' = [members EXCEPT ![PricerOf(t)] = bindGrowthOnly(@, Calling(t))]
    /\ IF requireMarketData(handles[PricerOf(t)]) = ""
       THEN Goto(t, At(t), "priceIndex")
       ELSE Return(t, At(t).c, Fail(requireMarketData(handles[PricerOf(t)])))

\* thread t goes on at statement pc with the locals loc
Continue(t, loc, pc) ==
    /\ Goto(t, loc, pc)
    /\ UNCHANGED <<pricing, zeroInflation, calendar, equityIndex>>

\* thread t leaves price() and amount() with the outcome r: the curves and
\* the clone it holds are destroyed and unregister from the observables
Leave(t, r) ==
    \E outcome \in IF Owns(t) THEN ObserverAccess(t) ELSE {"done"} :
        IF outcome = "crash" THEN Crash
        ELSE /\ Return(t, At(t).c, r)
             /\ UNCHANGED <<pricing, zeroInflation, calendar, equityIndex>>

\* thread t, at statement pc, does one of the outcomes and, unless that is
\* the crash, goes on at statement next with the locals loc, having changed
\* the observer sets if registers
Access(t, pc, outcomes, registers, loc, next) ==
    /\ ~crashed
    /\ At(t).pc = pc
    /\ \E outcome \in outcomes :
          IF outcome = "crash" THEN Crash
          ELSE /\ threads' = [threads EXCEPT
                                 !.at[t] = [loc EXCEPT !.pc = next],
                                 !.raced = IF registers /\ Unlocked(t)
                                           THEN @ \cup {"observables"}
                                           ELSE @,
                                 !.last = "none",
                                 !.result = NoResult]
               /\ UNCHANGED <<pricing, zeroInflation, calendar, equityIndex>>

\* line 133: index_-> is evaluated, and fixing is called with a reference to
\* fixingDate_
PriceIndex(t) ==
    Access(t, "priceIndex", IndexDereference(t), FALSE,
           [At(t) EXCEPT !.index = members[PricerOf(t)].index_,
                         !.fixing = "strike"],
           "fixingDate")

\* the index whose fixing thread t is taking, the member that fixing was
\* passed a reference to, and what a read through the reference returns now
FixingIndex(t) ==
    IF At(t).fixing = "strike" THEN equityIndex[At(t).index]
    ELSE At(t).quantoIndex
DateRead(t) ==
    IF At(t).fixing = "I0" THEN members[PricerOf(t)].baseDate_
    ELSE members[PricerOf(t)].fixingDate_

\* the fixing in progress returns r: an error leaves price(); the strike of
\* line 133 is followed by line 135, I0 of line 149 by the fixing of line
\* 150, I1 by line 153
Fixed(t, r) ==
    IF ~IsOk(r) THEN Leave(t, r)
    ELSE IF At(t).fixing = "strike"
    THEN Continue(t, [At(t) EXCEPT !.strike = r, !.index = NoIndex,
                                   !.fixing = "none", !.reads = "none",
                                   !.date = NullDate],
                  "priceDividend")
    ELSE IF At(t).fixing = "I0"
    THEN Continue(t, [At(t) EXCEPT !.I0 = r, !.fixing = "I1",
                                   !.reads = "none", !.date = NullDate],
                  "fixingDate")
    ELSE Continue(t, [At(t) EXCEPT !.I1 = r, !.fixing = "none",
                                   !.reads = "none", !.date = NullDate],
                  "priceReturn")

\* lines 133, 149, 150, in fixing: the date is compared with today; a date
\* after today is forecast, which needs an interest-rate curve
FixingDate(t) ==
    /\ ~crashed
    /\ At(t).pc = "fixingDate"
    /\ IF DateRead(t) <= Today
       THEN Continue(t, At(t), "fixingPast")
       ELSE IF FixingIndex(t).interest = EmptyHandle
       THEN Leave(t, Fail("null interest rate term structure set to this instance"))
       ELSE Continue(t, At(t), "fixingForecast")

\* in fixing: the historical fixing of the date, read again, is looked up
FixingPast(t) ==
    /\ ~crashed
    /\ At(t).pc = "fixingPast"
    /\ Fixed(t, IF DateRead(t) <= Today
                THEN Ok(RealOf(pastFixing(FixingIndex(t).name, DateRead(t))))
                ELSE Fail("Missing fixing"))

\* the curve of the index that a discount factor is taken from
DiscountCurve(t, curve) ==
    IF curve = "dividend" THEN FixingIndex(t).dividend
    ELSE [kind |-> "handle", id |-> FixingIndex(t).interest]

\* in fixing, the forecast: the discount factor that is computed first, or
\* the only one when the index has no dividend curve; the order of the two
\* is not specified, each reads the date again, and a curve rejects a date
\* before its reference date
FixingForecast(t) ==
    /\ ~crashed
    /\ At(t).pc = "fixingForecast"
    /\ IF FixingIndex(t).dividend = NoTermStructure
       THEN IF DateRead(t) < referenceDateOf(DiscountCurve(t, "interest"))
            THEN Leave(t, Fail("negative time given"))
            ELSE Fixed(t, forecastFrom(FixingIndex(t), DateRead(t), DateRead(t)))
       ELSE \E first \in {"dividend", "interest"} :
               IF EmptyHandle \in CurveHandles(DiscountCurve(t, first))
               THEN Leave(t, Fail("empty Handle cannot be dereferenced"))
               ELSE IF DateRead(t) < referenceDateOf(DiscountCurve(t, first))
               THEN Leave(t, Fail("negative time given"))
               ELSE Continue(t, [At(t) EXCEPT !.reads = first,
                                              !.date = DateRead(t)],
                             "fixingDiscount")

\* in fixing, the forecast: the other discount factor and the quotient
FixingDiscount(t) ==
    /\ ~crashed
    /\ At(t).pc = "fixingDiscount"
    /\ \E second \in {"dividend", "interest"} \ {At(t).reads} :
          IF EmptyHandle \in CurveHandles(DiscountCurve(t, second))
          THEN Leave(t, Fail("empty Handle cannot be dereferenced"))
          ELSE IF DateRead(t) < referenceDateOf(DiscountCurve(t, second))
          THEN Leave(t, Fail("negative time given"))
          ELSE Fixed(t, IF second = "interest"
                        THEN forecastFrom(FixingIndex(t), At(t).date, DateRead(t))
                        ELSE forecastFrom(FixingIndex(t), DateRead(t), At(t).date))

\* the outcomes of a statement that reads index_ and registers an observer
RegisteringRead(t) ==
    IF "crash" \in ObserverAccess(t) THEN IndexDereference(t) \cup {"crash"}
    ELSE IndexDereference(t)

\* lines 135-136: the flat curve built for an empty dividend handle
\* registers with the evaluation date
PriceDividend(t) ==
    /\ ~crashed
    /\ At(t).pc = "priceDividend"
    /\ \E d \in {IF members[PricerOf(t)].index_ = NoIndex THEN EmptyHandle
                 ELSE equityIndex[members[PricerOf(t)].index_].dividend.id} :
          Access(t, "priceDividend",
                 IF d = EmptyHandle THEN RegisteringRead(t)
                 ELSE IndexDereference(t),
                 d = EmptyHandle,
                 [At(t) EXCEPT !.dividendHandle = configureDividendHandle(d)],
                 "priceQuanto")

\* lines 139-142: the QuantoTermStructure registers with its handles; an
\* empty correlation handle cannot be dereferenced
PriceQuanto(t) ==
    /\ ~crashed
    /\ At(t).pc = "priceQuanto"
    /\ IF handles[PricerOf(t)].correlation_ = EmptyHandle
       THEN Leave(t, Fail("empty Handle cannot be dereferenced"))
       ELSE Access(t, "priceQuanto", RegisteringRead(t), TRUE,
                   [At(t) EXCEPT
                       !.quantoTermStructure =
                           quantoTermStructure(
                               At(t).dividendHandle, handles[PricerOf(t)],
                               equityIndex[members[PricerOf(t)].index_].interest,
                               At(t).strike.val,
                               quote[handles[PricerOf(t)].correlation_]),
                       !.dividendHandle = EmptyHandle],
                   "priceClone")

\* line 146, the first of its two reads of index_, for the index that is
\* cloned or for the index whose spot handle is passed: the order is not
\* specified
PriceClone(t) ==
    \E first \in {"clone", "spot"} :
        Access(t, "priceClone", IndexDereference(t), FALSE,
               [At(t) EXCEPT !.reads = first,
                             !.index = members[PricerOf(t)].index_],
               "priceSpot")

\* the index a statement works on: the one read first or the one read now
Operand(t, use) ==
    equityIndex[IF At(t).reads = use THEN At(t).index
                ELSE members[PricerOf(t)].index_]

\* line 146, the other read of index_ and the clone: a new index, which
\* registers with its curves, its spot and the evaluation date; the bound
\* index is left as it is; line 149 calls fixing with a reference to
\* baseDate_
PriceSpot(t) ==
    Access(t, "priceSpot", RegisteringRead(t), TRUE,
           [At(t) EXCEPT
               !.quantoIndex =
                   clone(Operand(t, "clone"),
                         handles[PricerOf(t)].quantoCurrencyTermStructure_,
                         At(t).quantoTermStructure,
                         Operand(t, "spot").spot),
               !.hasClone = TRUE,
               !.quantoTermStructure = NoTermStructure,
               !.reads = "none", !.index = NoIndex,
               !.fixing = "I0"],
           "fixingDate")

\* lines 153-156 and line 83: the clone and the curves are destroyed
PriceReturn(t) ==
    /\ ~crashed
    /\ At(t).pc = "priceReturn"
    /\ Leave(t, scaled(Calling(t),
                       indexRatio(At(t).I0, At(t).I1,
                                  members[PricerOf(t)].growthOnlyPayoff_)))

\* SimpleQuote::setValue while no thread is inside amount(): the
\* notification reaches the cash flows that hold a pricer linked to the
\* quote, whose earlier amounts are no longer current
SetValueBetweenCalls(qn, v) ==
    /\ ~crashed
    /\ \A t \in Threads : At(t).pc = "idle"
    /\ quote[qn] # v
    /\ quote' = [quote EXCEPT ![qn] = v]
    /\ threads' = [threads EXCEPT
                       !.returned =
                           {c \in @ :
                               updatesFrom(notifiedPricers("correlation_", qn))[c]
                                   = 0},
                       !.last = "none",
                       !.result = NoResult]
    /\ UNCHANGED <<cashFlow, pricer_, observers, registered, handles, members,
                   used, updated, lastOp, crashed>>
    /\ UNCHANGED <<zeroInflation, calendar, equityIndex>>

\* the cash flows the threads call: they differ in index, dates and flag
ThreadCashFlow(c, i) ==
    IF c = "c1"
    THEN [constructed |-> TRUE, notional |-> 1000, index |-> "eq1",
          baseDate |-> 0, fixingDate |-> Today + 1, growthOnly |-> TRUE]
    ELSE [constructed |-> TRUE, notional |-> 1000, index |-> i,
          baseDate |-> Today + 1, fixingDate |-> MaxDate, growthOnly |-> FALSE]

\* c1 holds pricer p1, c2 holds p1, p2 or none; the pricers are linked, p1 to
\* a quanto currency curve with either day counter; callers lock or do not
ThreadInit ==
    /\ \E i \in {"eq2", "eq3"} :
          cashFlow = [c \in CashFlows |-> ThreadCashFlow(c, i)]
    /\ \E p \in Pricers \cup {NoPricer} :
          /\ pricer_ = [c \in CashFlows |-> IF c = "c1" THEN "p1" ELSE p]
          /\ observers = [q \in Pricers |->
                             {c \in CashFlows :
                                 q = IF c = "c1" THEN "p1" ELSE p}]
    /\ registered = [p \in Pricers |-> constructorRegistrations]
    /\ \E curve \in {"usd", "usd360"} :
          handles = [p \in Pricers |->
                        IF p = "p1"
                        THEN [GraphHandles EXCEPT
                                 !.quantoCurrencyTermStructure_ = curve]
                        ELSE GraphHandles]
    /\ quote = [qn \in Quotes |-> 1]
    /\ members = [p \in Pricers |-> NoMembers]
    /\ used = [p \in Pricers |-> FALSE]
    /\ updated = NoUpdates
    /\ lastOp = PlainOp("none", "none")
    /\ crashed = FALSE
    /\ zeroInflation = NoZeroInflation
    /\ calendar = NoQuery
    /\ \E mutex \in {"unused", "free"} :
          threads = [NoThreads EXCEPT !.mutex = mutex]
    /\ equityIndex = [name \in EquityIndexes |-> EquityIndex(name)]

\* each thread calls amount() of one cash flow, again and again
ThreadNext ==
    \/ \E t \in Threads : Call(t, IF t = "t1" THEN "c1" ELSE "c2")
    \/ \E t \in Threads : InitIndex(t)
    \/ \E t \in Threads : InitCheck(t)
    \/ \E t \in Threads : InitBaseDate(t)
    \/ \E t \in Threads : InitFixingDate(t)
    \/ \E t \in Threads : InitRequire(t)
    \/ \E t \in Threads : InitCompare(t)
    \/ \E t \in Threads : InitFlag(t)
    \/ \E t \in Threads : PriceIndex(t)
    \/ \E t \in Threads : FixingDate(t)
    \/ \E t \in Threads : FixingPast(t)
    \/ \E t \in Threads : FixingForecast(t)
    \/ \E t \in Threads : FixingDiscount(t)
    \/ \E t \in Threads : PriceDividend(t)
    \/ \E t \in Threads : PriceQuanto(t)
    \/ \E t \in Threads : PriceClone(t)
    \/ \E t \in Threads : PriceSpot(t)
    \/ \E t \in Threads : PriceReturn(t)
    \/ \E qn \in Quotes, v \in CorrelationValues : SetValueBetweenCalls(qn, v)

\* Two threads that call amount(); the graph changes only between calls.
ThreadSpec == ThreadInit /\ [][ThreadNext]_vars

\* ------------------------------------------------------------- claims
AmountThroughPricer ==
    /\ lastOp.op = "amount"
    /\ ~crashed
    /\ pricer_[lastOp.target] # NoPricer

AmountWithoutPricer ==
    /\ lastOp.op = "amount"
    /\ ~crashed
    /\ pricer_[lastOp.target] = NoPricer

\* C1: an amount() call on a cash flow with a pricer calls initialize(this
\* cash flow) first and price() only after initialize succeeded, and returns
\* notional * price(); when initialize fails price() is not called and the
\* error of initialize is the outcome.
C1_InitializeThenPrice ==
    AmountThroughPricer =>
        LET c == lastOp.target
            p == pricer_[c]
        IN  /\ Len(lastOp.calls) >= 1 /\ lastOp.calls[1] = "initialize"
            /\ members[p].index_ = cashFlow[c].index
            /\ lastOp.init = initialize(members[p], handles[p], cashFlow[c]).err
            /\ lastOp.init # "" =>
                  /\ lastOp.calls = <<"initialize">>
                  /\ lastOp.result = Fail(lastOp.init)
            /\ lastOp.init = "" =>
                  /\ lastOp.calls = <<"initialize", "price">>
                  /\ members[p].baseDate_ = cashFlow[c].baseDate
                  /\ members[p].fixingDate_ = cashFlow[c].fixingDate
                  /\ members[p].growthOnlyPayoff_ = cashFlow[c].growthOnly
                  /\ IsOk(lastOp.priceRes) =>
                        lastOp.result =
                            Ok(RealScale(cashFlow[c].notional, lastOp.priceRes.val))
                  /\ ~IsOk(lastOp.priceRes) => lastOp.result = lastOp.priceRes

\* an amount() through the pricer returned a quanto-adjusted forecast
C1_Witness ==
    /\ AmountThroughPricer
    /\ lastOp.calls = <<"initialize", "price">>
    /\ IsOk(lastOp.result)
    /\ lastOp.result.val.e # 0

\* C2: without pricer, amount() is the indexed-cash-flow amount and no pricer
\* method is called: notional * I(fixing)/I(base), or notional *
\* (I(fixing)/I(base) - 1) when growthOnly; for fixings 100 and 110 that is
\* notional * 11/10 and notional * 1/10.
C2_NoPricerAmount ==
    AmountWithoutPricer =>
        LET cf == cashFlow[lastOp.target]
            I0 == fixing(EquityIndex(cf.index), cf.baseDate)
            I1 == fixing(EquityIndex(cf.index), cf.fixingDate)
            ratio == RealDiv(I1.val, I0.val)
        IN  /\ lastOp.calls = <<>>
            /\ lastOp.init = "none"
            /\ (IsOk(I0) /\ IsOk(I1)) =>
                  lastOp.result =
                      Ok(RealScale(cf.notional,
                            IF cf.growthOnly THEN RealMinusOne(ratio) ELSE ratio))
            /\ (IsOk(I0) /\ IsOk(I1) /\ I0.val = RealOf(100)
                  /\ I1.val = RealOf(110)) =>
                  lastOp.result.val =
                      Real(Rat(cf.notional * (IF cf.growthOnly THEN 1 ELSE 11), 10),
                           0, RZero)

\* the pricer was used and then cleared; the fixings are 100 and 110
C2_Witness ==
    /\ AmountWithoutPricer
    /\ lastOp.target = "c1"
    /\ used["p1"]
    /\ cashFlow["c1"].index = "eq1"
    /\ cashFlow["c1"].baseDate = 0
    /\ cashFlow["c1"].fixingDate = 1
    /\ cashFlow["c1"].growthOnly
    /\ lastOp.result = Ok(RealOf(100))

\* C3: after any sequence of setPricer calls a cash flow is registered with
\* its current pricer and with no other; each setPricer call updates the
\* cash flow exactly once (null or unchanged pricer included); a
\* notification of a pricer reaches only cash flows that currently hold it.
C3_ObservesCurrentPricerOnly ==
    /\ \A c \in CashFlows :
          {p \in Pricers : c \in observers[p]}
              = IF pricer_[c] = NoPricer THEN {} ELSE {pricer_[c]}
    /\ lastOp.op = "setPricer" =>
          \A c \in CashFlows :
              updated[c] = IF c = lastOp.target THEN 1 ELSE 0
    /\ lastOp.op = "linkTo" =>
          \A c \in CashFlows : updated[c] > 0 => pricer_[c] = lastOp.target
    /\ lastOp.op = "setValue" =>
          \A c \in CashFlows : updated[c] > 0 =>
              /\ pricer_[c] # NoPricer
              /\ handles[pricer_[c]].correlation_ = lastOp.target

\* c1 was priced by p1, now holds p2, and a relinking of p1's handle has
\* just notified c2 and not c1
C3_Witness ==
    /\ lastOp.op = "linkTo"
    /\ lastOp.target = "p1"
    /\ members["p1"].index_ = "eq1"
    /\ pricer_["c1"] = "p2"
    /\ pricer_["c2"] = "p1"
    /\ updated["c1"] = 0
    /\ updated["c2"] = 1

\* The quanto price in closed form for pricer p under correlation value rho
\* and growth flag g: the ratio of the fixings of the bound index, a future
\* fixing growing at  r - q - rho * sigmaE * sigmaFX  per day from today.
QuantoRatio(p, rho, g) ==
    LET m == members[p]
        h == handles[p]
        index == EquityIndex(m.index_)
        past(d) == pastFixing(m.index_, IF d <= Today THEN d ELSE Today)
        days(d) == IF d <= Today THEN 0 ELSE d - Today
        drift == YieldTermStructure(index.interest).rate
                 - (IF index.dividend.id = EmptyHandle THEN 0
                    ELSE YieldTermStructure(index.dividend.id).rate)
                 - rho * BlackVolTermStructure(h.equityVolatility_).vol
                       * BlackVolTermStructure(h.fxVolatility_).vol
        e == IF days(m.fixingDate_) = 0 /\ days(m.baseDate_) = 0 THEN 0
             ELSE drift * yearFraction("Actual365Fixed",
                                       days(m.fixingDate_) - days(m.baseDate_))
        ratio == Real(Rat(past(m.fixingDate_), past(m.baseDate_)), e, RZero)
    IN  IF g THEN RealMinusOne(ratio) ELSE ratio

GrowthFlags(p) ==
    IF members[p].growthOnlySet THEN {members[p].growthOnlyPayoff_} ELSE BOOLEAN

\* the pricer whose price() the last operation called, if it called one
PricedBy ==
    IF lastOp.op = "price" THEN lastOp.target ELSE pricer_[lastOp.target]

PriceReturned ==
    /\ ~crashed
    /\ lastOp.op \in {"price", "amount"}
    /\ "price" \in {lastOp.calls[k] : k \in 1..Len(lastOp.calls)}
    /\ IsOk(lastOp.priceRes)

\* C4: a price() call returns the value for the current value of the
\* correlation quote, whatever values the quote had before; each pricer is
\* registered with its four handles, and a relinked handle or a changed
\* quote updates every cash flow that holds a pricer linked to it.
C4_PriceFollowsQuote ==
    /\ \A p \in Pricers : registered[p] = HandleNames
    /\ lastOp.op = "linkTo" =>
          \A c \in CashFlows : pricer_[c] = lastOp.target => updated[c] = 1
    /\ lastOp.op = "setValue" =>
          \A c \in CashFlows :
              (/\ pricer_[c] # NoPricer
               /\ handles[pricer_[c]].correlation_ = lastOp.target)
                  => updated[c] = 1
    /\ PriceReturned =>
          lastOp.priceRes.val \in
              {QuantoRatio(PricedBy, quote[handles[PricedBy].correlation_], g) :
                  g \in GrowthFlags(PricedBy)}

\* the quote was changed to 1 and the price differs from the one under 0
C4_Witness ==
    /\ PriceReturned
    /\ lastOp.op = "price"
    /\ quote["rho"] = 1
    /\ \E c \in CashFlows : pricer_[c] = lastOp.target
    /\ lastOp.priceRes.val \notin
          {QuantoRatio(lastOp.target, 0, g) : g \in BOOLEAN}

InitializeCalled ==
    /\ AmountThroughPricer
    /\ Len(lastOp.calls) >= 1
    /\ lastOp.calls[1] = "initialize"

\* C5: initialize fails for a cash flow whose fixing date is before its base
\* date whatever the handles are linked to and whether or not the index has
\* curves; the error is the date error whenever there is an index, so the
\* date check precedes the handle and reference-date checks.
C5_RejectsFixingBeforeBase ==
    (/\ InitializeCalled
     /\ cashFlow[lastOp.target].fixingDate < cashFlow[lastOp.target].baseDate)
        => /\ lastOp.init # ""
           /\ lastOp.calls = <<"initialize">>
           /\ ~IsOk(lastOp.result)
           /\ cashFlow[lastOp.target].index # NoIndex =>
                 lastOp.init = "Fixing date cannot fall before base date."

\* rejected on the index without curves, with every handle empty
C5_Witness ==
    /\ InitializeCalled
    /\ cashFlow[lastOp.target].fixingDate < cashFlow[lastOp.target].baseDate
    /\ cashFlow[lastOp.target].index = "eq2"
    /\ handles[pricer_[lastOp.target]] = NoHandles
    /\ lastOp.init = "Fixing date cannot fall before base date."

HandleOrder ==
    <<"quantoCurrencyTermStructure_", "equityVolatility_", "fxVolatility_",
      "correlation_">>
EmptyHandleMessage ==
    <<"Quanto currency term structure handle cannot be empty.",
      "Equity volatility term structure handle cannot be empty.",
      "FX volatility term structure handle cannot be empty.",
      "Correlation handle cannot be empty.">>
EmptyPositions(h) == {k \in 1..4 : h[HandleOrder[k]] = EmptyHandle}

\* initialize got past the index and date checks
PastDateCheck ==
    /\ InitializeCalled
    /\ cashFlow[lastOp.target].index # NoIndex
    /\ cashFlow[lastOp.target].fixingDate >= cashFlow[lastOp.target].baseDate

\* C6: initialize succeeds only if the four handles are linked; otherwise it
\* fails with the message of the first empty handle in the order quanto
\* currency curve, equity volatility, FX volatility, correlation.
C6_FirstEmptyHandleNamed ==
    PastDateCheck =>
        LET empty == EmptyPositions(handles[pricer_[lastOp.target]])
        IN  /\ lastOp.init = "" => empty = {}
            /\ empty # {} =>
                  \E k \in empty :
                      /\ \A j \in empty : k <= j
                      /\ lastOp.init = EmptyHandleMessage[k]

\* equity volatility and correlation empty: the equity volatility is named
C6_Witness ==
    /\ PastDateCheck
    /\ EmptyPositions(handles[pricer_[lastOp.target]]) = {2, 4}
    /\ lastOp.init = "Equity volatility term structure handle cannot be empty."

ReferenceDates(h) ==
    {YieldTermStructure(h.quantoCurrencyTermStructure_).referenceDate,
     BlackVolTermStructure(h.equityVolatility_).referenceDate,
     BlackVolTermStructure(h.fxVolatility_).referenceDate}

\* C7: with the four handles linked, initialize fails with the
\* reference-date error when the reference dates of the quanto currency
\* curve and the two volatility surfaces are not all equal and succeeds when
\* they are, whatever the correlation quote is.
C7_CommonReferenceDate ==
    (PastDateCheck /\ EmptyPositions(handles[pricer_[lastOp.target]]) = {})
        => LET dates == ReferenceDates(handles[pricer_[lastOp.target]])
           IN  /\ Cardinality(dates) = 1 => lastOp.init = ""
               /\ Cardinality(dates) # 1 =>
                     lastOp.init = "Quanto currency term structure, equity and FX volatility need to have the same reference date."

\* the curve and the equity volatility agree, the FX volatility differs
C7_Witness ==
    /\ PastDateCheck
    /\ handles[pricer_[lastOp.target]].quantoCurrencyTermStructure_ = "usd"
    /\ handles[pricer_[lastOp.target]].equityVolatility_ = "eqVol"
    /\ handles[pricer_[lastOp.target]].fxVolatility_ = "fxVolFwd"
    /\ handles[pricer_[lastOp.target]].correlation_ = "rho"
    /\ quote["rho"] = 1
    /\ lastOp.init # ""

\* C8: once a pricer has been used successfully, a price() call made while
\* one of its four handles is empty fails and returns no value (the error
\* naming the empty handle).
C8_PriceFailsOnEmptyHandle ==
    (/\ lastOp.op = "price"
     /\ ~crashed
     /\ used[lastOp.target]
     /\ EmptyPositions(handles[lastOp.target]) # {})
        => ~IsOk(lastOp.result)

\* C9: every constructed cash flow has its fixing date on or after its base
\* date.
C9_FixingNotBeforeBase ==
    \A c \in CashFlows :
        cashFlow[c].constructed =>
            cashFlow[c].fixingDate >= cashFlow[c].baseDate

\* the correlation, the equity volatility or the FX volatility is zero
ZeroCrossTerm(h) ==
    \/ h.correlation_ # EmptyHandle /\ quote[h.correlation_] = 0
    \/ /\ h.equityVolatility_ # EmptyHandle
       /\ BlackVolTermStructure(h.equityVolatility_).vol = 0
    \/ /\ h.fxVolatility_ # EmptyHandle
       /\ BlackVolTermStructure(h.fxVolatility_).vol = 0

\* C10: with a zero correlation or a zero equity or FX volatility, price()
\* returns I1/I0 (minus one when growthOnly) for the fixings I0, I1 of the
\* original index at the bound base and fixing dates.
C10_ZeroCrossTermUnadjusted ==
    (PriceReturned /\ ZeroCrossTerm(handles[PricedBy])) =>
        LET m == members[PricedBy]
            I0 == fixing(EquityIndex(m.index_), m.baseDate_)
            I1 == fixing(EquityIndex(m.index_), m.fixingDate_)
            ratio == RealDiv(I1.val, I0.val)
        IN  /\ IsOk(I0)
            /\ IsOk(I1)
            /\ lastOp.priceRes.val \in
                  {IF g THEN RealMinusOne(ratio) ELSE ratio :
                      g \in GrowthFlags(PricedBy)}

\* the number of the month of a date, counted from December 2018
MonthNumber(date) == (date.year - 2019) * 12 + date.month

\* C11: the base and fixing dates handed to the indexed-cash-flow base are
\* startDate - observationLag and endDate - observationLag; baseFixing() is
\* laggedFixing(index, startDate, observationLag, interpolation) and
\* indexFixing() is laggedFixing(index, endDate, observationLag,
\* interpolation) for the constructor's arguments, so that without
\* interpolation it is the fixing of the month that lies observationLag
\* months before the month of the start (end) date.
C11_LaggedFixings ==
    zeroInflation.constructed =>
        LET a == zeroInflation.arguments
            cf == zeroInflation.cashFlow
            date == IF zeroInflation.call = "baseFixing"
                    THEN a.startDate ELSE a.endDate
            k == MonthNumber(date) - a.observationLag
        IN  /\ cf.baseDate = minusMonths(a.startDate, a.observationLag)
            /\ cf.fixingDate = minusMonths(a.endDate, a.observationLag)
            /\ MonthNumber(cf.baseDate)
                  = MonthNumber(a.startDate) - a.observationLag
            /\ MonthNumber(cf.fixingDate)
                  = MonthNumber(a.endDate) - a.observationLag
            /\ zeroInflation.call # "none" =>
                  /\ zeroInflation.result =
                        laggedFixing(a.index, date, a.observationLag,
                                     a.observationInterpolation)
                  /\ a.observationInterpolation # "Linear" =>
                        zeroInflation.result = Rat(100 + k * k, 1)

\* the base fixing of a cash flow starting March 16th, 2020 with a lag of
\* three months, interpolated between December 2019 and January 2020
C11_Witness ==
    /\ zeroInflation.constructed
    /\ zeroInflation.call = "baseFixing"
    /\ zeroInflation.arguments.observationInterpolation = "Linear"
    /\ zeroInflation.arguments.startDate = Date(16, 3, 2020)
    /\ zeroInflation.arguments.endDate = Date(31, 5, 2020)
    /\ zeroInflation.arguments.observationLag = 3
    /\ zeroInflation.cashFlow.baseDate = Date(16, 12, 2019)
    /\ zeroInflation.cashFlow.fixingDate = Date(29, 2, 2020)
    /\ zeroInflation.result = Rat(7939, 31)

\* the day of the week by Zeller's congruence: 0 is Saturday, 1 is Sunday
Zeller(q, m, y) == (q + ((13 * (m + 1)) \div 5) + (y % 100) + ((y % 100) \div 4)
                      + ((y \div 100) \div 4) + 5 * (y \div 100)) % 7
SaturdayOrSunday(date) ==
    IF date.month <= 2
    THEN Zeller(date.dayOfMonth, date.month + 12, date.year - 1) <= 1
    ELSE Zeller(date.dayOfMonth, date.month, date.year) <= 1

\* Good Friday and Easter Monday of the years 1998 to 2004
GoodFridays ==
    {Date(10, 4, 1998), Date(2, 4, 1999), Date(21, 4, 2000), Date(13, 4, 2001),
     Date(29, 3, 2002), Date(18, 4, 2003), Date(9, 4, 2004)}
EasterMondays ==
    {Date(13, 4, 1998), Date(5, 4, 1999), Date(24, 4, 2000), Date(16, 4, 2001),
     Date(1, 4, 2002), Date(21, 4, 2003), Date(12, 4, 2004)}

TargetHoliday(date) ==
    \/ SaturdayOrSunday(date)
    \/ date.dayOfMonth = 1 /\ date.month = 1
    \/ date \in GoodFridays \cup EasterMondays /\ date.year >= 2000
    \/ date.dayOfMonth = 1 /\ date.month = 5 /\ date.year >= 2000
    \/ date.dayOfMonth = 25 /\ date.month = 12
    \/ date.dayOfMonth = 26 /\ date.month = 12 /\ date.year >= 2000
    \/ date.dayOfMonth = 31 /\ date.month = 12 /\ date.year \in {1998, 1999, 2001}

\* C12: isBusinessDay(date) is false exactly on Saturdays, Sundays, January
\* 1st, Good Friday and Easter Monday from 2000 on, May 1st from 2000 on,
\* December 25th, December 26th from 2000 on and December 31st of 1998, 1999
\* and 2001; a weekday May 1st, December 26th, Good Friday or Easter Monday
\* before 2000 is a business day.
C12_TargetHolidays ==
    calendar.asked =>
        /\ calendar.isBusinessDay <=> ~TargetHoliday(calendar.date)
        /\ (/\ calendar.date.year < 2000
            /\ ~SaturdayOrSunday(calendar.date)
            /\ \/ calendar.date \in GoodFridays \cup EasterMondays
               \/ calendar.date.dayOfMonth = 1 /\ calendar.date.month = 5
               \/ calendar.date.dayOfMonth = 26 /\ calendar.date.month = 12)
              => calendar.isBusinessDay

\* Good Friday of 2002, in March, is no business day
C12_Witness ==
    /\ calendar.asked
    /\ calendar.date = Date(29, 3, 2002)
    /\ ~calendar.isBusinessDay

\* callers take a lock around amount(): the calls run one after another
Serialized == threads.mutex # "unused"
InFlight(t) == At(t).pc # "idle"
PricePcs == {"priceIndex", "fixingDate", "fixingPast", "fixingForecast",
             "fixingDiscount", "priceDividend", "priceQuanto", "priceClone",
             "priceSpot", "priceReturn"}

\* the members of a pricer that initialize has bound to the cash flow cf
BoundTo(cf) ==
    [index_ |-> cf.index, baseDate_ |-> cf.baseDate,
     fixingDate_ |-> cf.fixingDate, growthOnlyPayoff_ |-> cf.growthOnly,
     growthOnlySet |-> TRUE]

\* what amount() of cash flow c returns on the graph as it is now
OwnAmount(c) ==
    amount(cashFlow[c], pricer_[c], NoMembers, HandlesOf(pricer_[c]), quote).result

\* the notional of cash flow c times the price for the parameters of d
ForeignAmount(c, d) ==
    scaled(cashFlow[c],
           price(BoundTo(cashFlow[d]), handles[pricer_[c]], quote,
                 cashFlow[d].growthOnly))

\* C13: a cash flow recomputes its amount only when stale: while no
\* notification has reached it since its amount() returned a value, a
\* further amount() call does not enter pricer.initialize or pricer.price,
\* and the amount returned after a notification is the one for the changed
\* market data.
C13_RecomputesOnlyWhenStale ==
    Serialized =>
        /\ \A t \in Threads :
              (InFlight(t) /\ PricerOf(t) # NoPricer)
                  => At(t).c \notin threads.returned
        /\ threads.last # "none" => threads.result = OwnAmount(threads.last)

\* the curve the clone of a thread takes its dividend yield from
DividendCurveOf(t) == At(t).quantoIndex.dividend.underlyingDividendTS

\* C14: in price(), an empty dividend handle of the index is replaced by a
\* flat zero-yield curve with the day counter of the other curves the pricer
\* uses (the quanto currency curve and the index's interest-rate curve); a
\* linked dividend handle is used unchanged; the dividend curve is never
\* left empty.
C14_DividendCurveDayCount ==
    \A t \in Threads :
        (Serialized /\ At(t).hasClone) =>
            LET original == equityIndex[At(t).quantoIndex.name]
                h == handles[PricerOf(t)]
            IN  /\ DividendCurveOf(t) # EmptyHandle
                /\ original.dividend.id # EmptyHandle =>
                      DividendCurveOf(t) = original.dividend.id
                /\ original.dividend.id = EmptyHandle =>
                      /\ YieldTermStructure(DividendCurveOf(t)).rate = 0
                      /\ YieldTermStructure(DividendCurveOf(t)).dayCounter
                            = YieldTermStructure(
                                  h.quantoCurrencyTermStructure_).dayCounter
                      /\ YieldTermStructure(DividendCurveOf(t)).dayCounter
                            = YieldTermStructure(original.interest).dayCounter

\* the index that price() of pricer p works on according to the claim: the
\* bound index with the quanto currency curve as its interest-rate curve,
\* the quanto-adjusted curve as its dividend (forecast) curve and the spot
\* handle of the original
ClaimedClone(p) ==
    LET original == equityIndex[members[p].index_]
        h == handles[p]
    IN  [name |-> original.name,
         interest |-> h.quantoCurrencyTermStructure_,
         dividend |->
             [kind |-> "quanto",
              underlyingDividendTS |->
                  IF original.dividend.id = EmptyHandle THEN "flatZero"
                  ELSE original.dividend.id,
              riskFreeTS |-> h.quantoCurrencyTermStructure_,
              foreignRiskFreeTS |-> original.interest,
              underlyingBlackVolTS |-> h.equityVolatility_,
              strike |-> fixing(original, members[p].fixingDate_).val,
              exchRateBlackVolTS |-> h.fxVolatility_,
              exchRateATMlevel |-> 1,
              underlyingExchRateCorrelation |-> quote[h.correlation_]],
         spot |-> original.spot]

\* I1/I0 of the claimed clone at the bound dates, minus one when g
ClaimedPrice(p, g) ==
    LET I0 == fixing(ClaimedClone(p), members[p].baseDate_)
        I1 == fixing(ClaimedClone(p), members[p].fixingDate_)
    IN  IF g THEN RealMinusOne(RealDiv(I1.val, I0.val))
        ELSE RealDiv(I1.val, I0.val)

\* C15: price() works on a clone of the bound index whose interest-rate
\* curve is the quanto currency curve, whose forecast curve is the
\* quanto-adjusted curve and whose spot is the original spot; the price it
\* returns is I1/I0 of the clone's fixings at base and fixing date, minus one
\* when growthOnly; a price() call, failed or not, leaves the original
\* indexes, the pricer's members and its handles, the quotes and the cash
\* flows as they were.
C15_PriceOnClone ==
    /\ [](PriceReturned =>
              lastOp.priceRes.val \in
                  {ClaimedPrice(PricedBy, g) : g \in GrowthFlags(PricedBy)})
    /\ [][lastOp'.op = "price" =>
              /\ equityIndex' = equityIndex
              /\ members' = members
              /\ handles' = handles
              /\ quote' = quote
              /\ cashFlow' = cashFlow
              /\ pricer_' = pricer_]_vars

\* price() was called after the handles were relinked: the index has a
\* dividend curve, the clone forecasts both fixings on the quanto currency
\* curve and the quanto-adjusted curve with non-zero volatilities and
\* correlation 1, and the pricer is still bound as initialize left it
C15_Witness ==
    /\ PriceReturned
    /\ lastOp.op = "price"
    /\ members["p1"].index_ = "eq3"
    /\ members["p1"].baseDate_ = Today + 1
    /\ members["p1"].fixingDate_ = MaxDate
    /\ members["p1"].growthOnlySet
    /\ handles["p1"].equityVolatility_ = "eqVol"
    /\ handles["p1"].fxVolatility_ = "fxVol"
    /\ quote["rho"] = 1
    /\ lastOp.priceRes.val = ClaimedPrice("p1", members["p1"].growthOnlyPayoff_)
    /\ lastOp.priceRes.val.e # 0
    /\ lastOp.priceRes.val
          # indexRatio(fixing(EquityIndex("eq3"), Today + 1),
                       fixing(EquityIndex("eq3"), MaxDate),
                       members["p1"].growthOnlyPayoff_).val

\* C16: with amount() calls issued one after another, in any order, on cash
\* flows that may share a pricer, each call binds the pricer to the calling
\* cash flow and returns the error of its initialize or the notional times
\* the price for the calling cash flow's own index, base date, fixing date
\* and growthOnly flag, whatever the pricer was bound to before.
C16_OwnParameters ==
    AmountThroughPricer =>
        LET c == lastOp.target
            own == BoundTo(cashFlow[c])
        IN  /\ lastOp.init = "" => members[pricer_[c]] = own
            /\ lastOp.init = "" =>
                  lastOp.result =
                      scaled(cashFlow[c],
                             price(own, handles[pricer_[c]], quote,
                                   cashFlow[c].growthOnly))
            /\ lastOp.init # "" => lastOp.result = Fail(lastOp.init)

\* c2 has just returned its own amount from the pricer it shares with c1,
\* whose amount that pricer returned before; it is not the amount for the
\* parameters of c1
C16_Witness ==
    /\ AmountThroughPricer
    /\ lastOp.target = "c2"
    /\ pricer_["c1"] = "p1"
    /\ pricer_["c2"] = "p1"
    /\ lastOp.rebound
    /\ cashFlow["c1"].fixingDate = MaxDate
    /\ IsOk(lastOp.result)
    /\ members["p1"] = BoundTo(cashFlow["c2"])
    /\ lastOp.result # ForeignAmount("c2", "c1")

\* C17: amount() writes the members of the shared pricer.  When each
\* initialize-price pair runs atomically, the members are those of the
\* calling cash flow throughout price(), they stay those of the last caller
\* after its return, and no amount() returns the value for the parameters of
\* another cash flow of the pricer.
C17_AtomicPairs ==
    Serialized =>
        /\ \A t \in Threads :
              At(t).pc \in PricePcs =>
                  members[PricerOf(t)] = BoundTo(Calling(t))
        /\ (/\ threads.last # "none"
            /\ pricer_[threads.last] # NoPricer
            /\ \A t \in Threads : ~InFlight(t))
              => members[pricer_[threads.last]] = BoundTo(cashFlow[threads.last])
        /\ \A c \in CashFlows, d \in CashFlows :
              (/\ threads.last = c
               /\ d # c
               /\ pricer_[c] # NoPricer
               /\ pricer_[d] = pricer_[c]
               /\ IsOk(threads.result)
               /\ ForeignAmount(c, d) # OwnAmount(c))
                  => threads.result # ForeignAmount(c, d)

\* without lock, the initialize of c2 has fallen between the initialize and
\* the price of c1, and amount() of c1 has returned its notional times the
\* price for the parameters of c2
C17_Witness ==
    /\ ~Serialized
    /\ threads.last = "c1"
    /\ pricer_["c2"] = pricer_["c1"]
    /\ IsOk(threads.result)
    /\ threads.result = ForeignAmount("c1", "c2")
    /\ threads.result # OwnAmount("c1")

====
